---- MODULE Spec2Model ----
(***************************************************************************)
(* Model of src/App.tsx: the App component's state (useState cells), its   *)
(* effects, its event handlers and the asynchronous generation flow of     *)
(* handleGenerateVideo (encode -> submit -> poll loop -> fetch -> blob).   *)
(*                                                                         *)
(* One action is one synchronous run of JavaScript: an event handler up to *)
(* its first await, or the continuation of an await up to the next one.    *)
(* React batches the setState calls of one run, renders once and then runs *)
(* the effect cleanups, so every action includes the render that follows   *)
(* it: the cleanup of the generatedVideoUrl effect (revokeObjectURL of the *)
(* previous value) and the re-memoisation of handleGenerateVideo when one  *)
(* of its dependencies [imageFile, prompt, aspectRatio] changed.           *)
(*                                                                         *)
(* Spec         : handlers are invoked only through the controls that      *)
(*                renderContent renders in the current state.              *)
(* SpecHandlers : additionally handleGenerateVideo may be invoked in any   *)
(*                state (the orchestrator's generate() taken on its own,   *)
(*                without the presentation layer's disabled button).       *)
(*                                                                         *)
(* SpecUnmount  : Spec, and the component may be unmounted at any moment.   *)
(* SpecLive     : Spec, with the fairness of the event loop: a settled     *)
(*                promise's continuation and a due timer do run.           *)
(*                                                                         *)
(* Not modelled: loadingMessage and its 3 s interval (presentation only).  *)
(***************************************************************************)
EXTENDS Integers, Sequences, FiniteSets, TLC

\* ------------------------------------------------------------------ bounds
MaxFlows == 2            \* calls of handleGenerateVideo that start a flow
MaxImageChanges == 2     \* files the user picks
MaxPendingSelects == 1   \* openSelectKey dialogs awaiting an answer
TickMs == 5000           \* granularity of the clock

\* ------------------------------------------------------- program constants
PollInterval == 10000

Null == 0                \* null of the two object-URL cells
NoFile == 0              \* null of imageFile
NoError == <<>>          \* null of error

\* Every selection in the file input is a new File object: file n is the
\* n-th one picked. Odd ones are PNGs of bytes "AAA", even ones JPEGs of "BBB".
Files == 1..MaxImageChanges
FileType(file) == IF file % 2 = 1 THEN "image/png" ELSE "image/jpeg"
FileBytes(file) == IF file % 2 = 1 THEN "AAA" ELSE "BBB"
Base64(bytes) == IF bytes = "AAA" THEN "QUFB" ELSE "QkJC"

DefaultPrompt == "uma pessoa com malas atravessando a ponte da amizade do brasil para o paraguai"
Prompts == {"", DefaultPrompt}
AspectRatios == {"16:9", "9:16"}

\* Messages are sequences of words, so that String.includes is a real test.
Signal == <<"Requested", "entity", "was", "not", "found">>
ValidationMsg == <<"Please upload an image and provide a prompt.">>
InvalidKeyMsg == <<"Your API key is invalid or not configured. Please select a valid key.">>
ProbeErrorMsg == <<"Could not verify API key status. Assuming key is present.">>
UnknownMsg == <<"An unknown error occurred.">>
MissingUriMsg == <<"Video generation completed, but no video URI was found.">>
FailPrefix == <<"Failed to generate video:">>
FetchPrefix == <<"Failed to fetch video:">>

\* What the remote calls may throw: Error objects with a message, or a value
\* that is not an Error (fileToBase64 rejects with the reader's error event).
ErrMessages == { <<"404", "Requested", "entity", "was", "not", "found">>,
                 <<"Requested", "entity", "not", "found">> }
Thrown == [isError : {TRUE}, message : ErrMessages]
            \cup {[isError |-> FALSE, message |-> <<>>]}
StatusTexts == { <<"Forbidden">>, Signal }
Operations == { [done |-> FALSE, uri |-> FALSE],
                [done |-> TRUE, uri |-> FALSE],
                [done |-> TRUE, uri |-> TRUE] }

\* ------------------------------------------------------------ pure helpers
\* String.prototype.includes, on words
Includes(msg, sub) ==
  \E i \in 0..(Len(msg) - Len(sub)) : SubSeq(msg, i + 1, i + Len(sub)) = sub

\* FileReader.readAsDataURL
DataUrl(file) == <<"data:", FileType(file), ";base64", ",", Base64(FileBytes(file))>>

\* String.prototype.split(','): the pieces between the commas
RECURSIVE SplitComma(_)
SplitComma(s) ==
  IF \A i \in 1..Len(s) : s[i] # ","
    THEN <<s>>
    ELSE LET k == CHOOSE i \in 1..Len(s) : s[i] = "," /\ \A j \in 1..(i - 1) : s[j] # ","
         IN <<SubSeq(s, 1, k - 1)>> \o SplitComma(SubSeq(s, k + 1, Len(s)))

\* fileToBase64's resolved value: result.split(',')[1]
fileToBase64(file) == SplitComma(DataUrl(file))[2]

\* err instanceof Error ? err.message : "An unknown error occurred."
ErrorMessage(err) == IF err.isError THEN err.message ELSE UnknownMsg

\* ------------------------------------------------------------------- state
VARIABLES
  mounted,           \* the App component is mounted
  aistudio,          \* which of hasSelectedApiKey, openSelectKey window.aistudio offers as functions
  envApiKey,         \* process.env.API_KEY is a non-empty string
  apiKeySelected,    \* "null" | "true" | "false"
  imageFile,         \* a file or NoFile
  imagePreview,      \* an object URL or Null
  prompt,
  aspectRatio,
  isLoading,
  generatedVideoUrl, \* an object URL or Null
  error,             \* a message or NoError
  cbVideoUrl,        \* generatedVideoUrl as captured by the memoised handleGenerateVideo
  probe,             \* checkKey: "notStarted" | "pending" | "done"
  pendingSelects,    \* handleSelectKey calls awaiting openSelectKey
  flows,             \* the calls of handleGenerateVideo that passed validation
  nFlows,            \* how many of them there are
  objectUrls,        \* every URL.createObjectURL so far; the URL is its index
  lastOp             \* the operation that made the last step, its flow and its input

vars == <<mounted, aistudio, envApiKey, apiKeySelected, imageFile, imagePreview, prompt,
          aspectRatio, isLoading, generatedVideoUrl, error, cbVideoUrl, probe,
          pendingSelects, flows, nFlows, objectUrls, lastOp>>

\* What no handler writes: the environment, and whether the component is mounted
env == <<mounted, aistudio, envApiKey>>

\* A state setter called with value: React ignores it once the component is
\* unmounted
Set(cell, value) == IF mounted THEN value ELSE cell

\* The binary the service holds for flow f's video
BlobOf(f) == <<"video", f>>

FlowIds == 1..MaxFlows
InFlightPcs == {"encoding", "submitting", "waiting", "polling", "fetching", "blob"}

NoRequest == [prompt |-> "", imageBytes |-> <<>>, mimeType |-> "", aspectRatio |-> ""]

\* A flow: where its handleGenerateVideo call stands (pc), what the call's
\* closure holds until it is used (file, prompt, aspectRatio), the request in
\* flight, its timer, and how many calls it has issued. A flow that has ended
\* keeps its pc only.
IdleFlow == [pc |-> "idle", file |-> NoFile, prompt |-> "", aspectRatio |-> "",
             request |-> NoRequest, timerLeft |-> 0, waited |-> 0,
             nEncode |-> 0, nSubmit |-> 0, nFetch |-> 0]

Ended(pc) == [IdleFlow EXCEPT !.pc = pc]

\* The input of an operation that takes none; every input is a record
NoArg == [none |-> TRUE]

Op(name, f, arg) == [op |-> name, flow |-> f, arg |-> arg]

Init ==
  /\ mounted = TRUE
  /\ aistudio \in [hasSelectedApiKey : BOOLEAN, openSelectKey : BOOLEAN]
  /\ envApiKey \in BOOLEAN
  /\ apiKeySelected = "null"
  /\ imageFile = NoFile
  /\ imagePreview = Null
  /\ prompt = DefaultPrompt
  /\ aspectRatio = "16:9"
  /\ isLoading = FALSE
  /\ generatedVideoUrl = Null
  /\ error = NoError
  /\ cbVideoUrl = Null
  /\ probe = "notStarted"
  /\ pendingSelects = 0
  /\ flows = [f \in FlowIds |-> IdleFlow]
  /\ nFlows = 0
  /\ objectUrls = <<>>
  /\ lastOp = Op("init", 0, NoArg)

\* ------------------------------------------------------------- object URLs
\* URL.createObjectURL: a fresh URL for the slot it is created for
createObjectURL(urls, slot, src) ==
  Append(urls, [slot |-> slot, src |-> src, revoked |-> FALSE])

\* URL.revokeObjectURL
revokeObjectURL(urls, u) ==
  [i \in 1..Len(urls) |-> IF i = u THEN [urls[i] EXCEPT !.revoked = TRUE] ELSE urls[i]]

\* Mutant of VideoUrlEffect: the effect has no cleanup
VideoUrlEffect_NoRevoke(urls, old, new) == urls

\* Cleanup of the effect on [generatedVideoUrl], run by the render in which
\* the cell's value changes from old to new
VideoUrlEffect(urls, old, new) ==
  IF old # new /\ old # Null THEN revokeObjectURL(urls, old) ELSE urls

\* useCallback(..., [imageFile, prompt, aspectRatio]): the handler, and with it
\* the generatedVideoUrl it closes over, is replaced only in a render in which
\* a dependency changed
Memoised(depsChanged, newVideoUrl) == IF depsChanged THEN newVideoUrl ELSE cbVideoUrl

\* The URLs created for a slot and not revoked
LiveIn(urls, slot) == {u \in 1..Len(urls) : urls[u].slot = slot /\ ~urls[u].revoked}
Live(slot) == LiveIn(objectUrls, slot)

\* ------------------------------------------------------------ renderContent
KeyScreenRendered == mounted /\ apiKeySelected = "false"
SpinnerRendered == mounted /\ (apiKeySelected = "null" \/ (apiKeySelected = "true" /\ isLoading))
ResultRendered == mounted /\ apiKeySelected = "true" /\ ~isLoading /\ generatedVideoUrl # Null
FormRendered == mounted /\ apiKeySelected = "true" /\ ~isLoading /\ generatedVideoUrl = Null
isGenerateDisabled == isLoading \/ imageFile = NoFile \/ prompt = ""


\* ------------------------------------------------- startup probe (checkKey)
\* Mutant of KeyFlag: the probe's answer is ignored
KeyFlag_AlwaysTrue(hasKey) == "true"

\* The value of the apiKeySelected cell for a boolean
KeyFlag(hasKey) == IF hasKey THEN "true" ELSE "false"

\* The mount effect: checkKey() up to its await, or to its end when
\* window.aistudio.hasSelectedApiKey is not a function
CheckKey ==
  /\ mounted
  /\ probe = "notStarted"
  /\ IF aistudio.hasSelectedApiKey
       THEN probe' = "pending" /\ UNCHANGED apiKeySelected
       ELSE probe' = "done" /\ apiKeySelected' = KeyFlag(TRUE)
  /\ lastOp' = Op("checkKey", 0, NoArg)
  /\ UNCHANGED <<env, imageFile, imagePreview, prompt, aspectRatio, isLoading,
                 generatedVideoUrl, error, cbVideoUrl, pendingSelects, flows,
                 nFlows, objectUrls>>

\* await hasSelectedApiKey() answers hasKey
CheckKeyResolve ==
  /\ probe = "pending"
  /\ \E hasKey \in BOOLEAN :
       /\ apiKeySelected' = Set(apiKeySelected, KeyFlag(hasKey))
       /\ lastOp' = Op("checkKeyResolve", 0, [hasKey |-> hasKey])
  /\ probe' = "done"
  /\ UNCHANGED <<env, imageFile, imagePreview, prompt, aspectRatio, isLoading,
                 generatedVideoUrl, error, cbVideoUrl, pendingSelects, flows,
                 nFlows, objectUrls>>

\* await hasSelectedApiKey() rejects: the catch of checkKey
CheckKeyReject ==
  /\ probe = "pending"
  /\ error' = Set(error, ProbeErrorMsg)
  /\ apiKeySelected' = Set(apiKeySelected, KeyFlag(TRUE))
  /\ probe' = "done"
  /\ lastOp' = Op("checkKeyReject", 0, NoArg)
  /\ UNCHANGED <<env, imageFile, imagePreview, prompt, aspectRatio, isLoading,
                 generatedVideoUrl, cbVideoUrl, pendingSelects, flows,
                 nFlows, objectUrls>>

\* --------------------------------------------------------- handleSelectKey
\* Click on "Select API Key": handleSelectKey up to await openSelectKey().
\* Without window.aistudio.openSelectKey the handler does nothing (no step).
SelectKeyClick ==
  /\ KeyScreenRendered
  /\ aistudio.openSelectKey
  /\ pendingSelects < MaxPendingSelects
  /\ pendingSelects' = pendingSelects + 1
  /\ lastOp' = Op("selectKey", 0, NoArg)
  /\ UNCHANGED <<env, apiKeySelected, imageFile, imagePreview, prompt, aspectRatio,
                 isLoading, generatedVideoUrl, error, cbVideoUrl, probe, flows,
                 nFlows, objectUrls>>

\* openSelectKey() resolves: setApiKeySelected(true)
SelectKeyResolve ==
  /\ pendingSelects > 0
  /\ pendingSelects' = pendingSelects - 1
  /\ apiKeySelected' = Set(apiKeySelected, KeyFlag(TRUE))
  /\ lastOp' = Op("selectKeyResolve", 0, NoArg)
  /\ UNCHANGED <<env, imageFile, imagePreview, prompt, aspectRatio,
                 isLoading, generatedVideoUrl, error, cbVideoUrl, probe, flows,
                 nFlows, objectUrls>>

\* openSelectKey() rejects: handleSelectKey ends without a state update
SelectKeyReject ==
  /\ pendingSelects > 0
  /\ pendingSelects' = pendingSelects - 1
  /\ lastOp' = Op("selectKeyReject", 0, NoArg)
  /\ UNCHANGED <<env, apiKeySelected, imageFile, imagePreview, prompt, aspectRatio,
                 isLoading, generatedVideoUrl, error, cbVideoUrl, probe, flows,
                 nFlows, objectUrls>>

\* ------------------------------------------------------- form and result UI
\* handleImageChange with a file chosen (no file chosen: no step). The input
\* element is rendered only while the form shows no preview. Every selection
\* is a new File object, so the dependency imageFile changes.
handleImageChange(file) ==
  LET cleared == IF generatedVideoUrl # Null THEN Null ELSE generatedVideoUrl
      created == createObjectURL(objectUrls, "preview", <<"file", file>>)
  IN /\ generatedVideoUrl' = cleared
     /\ imageFile' = file
     /\ imagePreview' = Len(created)
     /\ objectUrls' = VideoUrlEffect(created, generatedVideoUrl, cleared)
     /\ cbVideoUrl' = Memoised(TRUE, cleared)

\* The files picked so far: one preview URL was created for each
FilesPicked == Cardinality({u \in 1..Len(objectUrls) : objectUrls[u].slot = "preview"})

ImageChange ==
  /\ FormRendered
  /\ imagePreview = Null
  /\ FilesPicked < MaxImageChanges
  /\ handleImageChange(FilesPicked + 1)
  /\ lastOp' = Op("imageChange", 0, NoArg)
  /\ UNCHANGED <<env, apiKeySelected, prompt, aspectRatio, isLoading, error,
                 probe, pendingSelects, flows, nFlows>>

\* onChange of the prompt textarea: setPrompt(e.target.value)
SetPrompt ==
  /\ FormRendered
  /\ \E p \in Prompts \ {prompt} : prompt' = p
  /\ cbVideoUrl' = Memoised(TRUE, generatedVideoUrl)
  /\ lastOp' = Op("setPrompt", 0, NoArg)
  /\ UNCHANGED <<env, apiKeySelected, imageFile, imagePreview, aspectRatio, isLoading,
                 generatedVideoUrl, error, probe, pendingSelects, flows, nFlows,
                 objectUrls>>

\* onChange of an aspect-ratio radio: setAspectRatio(ratio)
SetAspectRatio ==
  /\ FormRendered
  /\ \E r \in AspectRatios \ {aspectRatio} : aspectRatio' = r
  /\ cbVideoUrl' = Memoised(TRUE, generatedVideoUrl)
  /\ lastOp' = Op("setAspectRatio", 0, NoArg)
  /\ UNCHANGED <<env, apiKeySelected, imageFile, imagePreview, prompt, isLoading,
                 generatedVideoUrl, error, probe, pendingSelects, flows, nFlows,
                 objectUrls>>

\* onClick of "Create Another"
CreateAnother ==
  /\ ResultRendered
  /\ generatedVideoUrl' = Null
  /\ imageFile' = NoFile
  /\ imagePreview' = Null
  /\ objectUrls' = VideoUrlEffect(objectUrls, generatedVideoUrl, Null)
  /\ cbVideoUrl' = Memoised(imageFile # NoFile, Null)
  /\ lastOp' = Op("createAnother", 0, NoArg)
  /\ UNCHANGED <<env, apiKeySelected, prompt, aspectRatio, isLoading, error,
                 probe, pendingSelects, flows, nFlows>>


\* ------------------------------------------------------ handleGenerateVideo
\* The catch block: the error message and the credential flag it sets
CatchError(err) ==
  IF Includes(ErrorMessage(err), Signal)
    THEN InvalidKeyMsg
    ELSE FailPrefix \o ErrorMessage(err)

\* Mutant of CatchKeySelected: every failure clears the credential flag
CatchKeySelected_AlwaysFalse(err) == "false"

\* Mutant of CatchKeySelected: the catch block leaves the credential flag alone
CatchKeySelected_Unchanged(err) == apiKeySelected

CatchKeySelected(err) ==
  IF Includes(ErrorMessage(err), Signal) THEN "false" ELSE apiKeySelected

\* Mutant of FlowFails: no finally block, the loading flag stays as it is
FlowFails_LoadingStuck(f, err) ==
  /\ error' = CatchError(err)
  /\ apiKeySelected' = CatchKeySelected(err)
  /\ isLoading' = TRUE
  /\ flows' = [flows EXCEPT ![f] = Ended("failed")]

\* catch + finally of flow f
FlowFails(f, err) ==
  /\ error' = Set(error, CatchError(err))
  /\ apiKeySelected' = Set(apiKeySelected, CatchKeySelected(err))
  /\ isLoading' = Set(isLoading, FALSE)
  /\ flows' = [flows EXCEPT ![f] = Ended("failed")]

\* Mutant of FetchError: the thrown message leaves the status text out
FetchError_NoStatusText(statusText) == [isError |-> TRUE, message |-> FetchPrefix]

\* The missing-result and the bad-response errors the handler throws itself
MissingUriError == [isError |-> TRUE, message |-> MissingUriMsg]
FetchError(statusText) == [isError |-> TRUE, message |-> FetchPrefix \o statusText]

\* What new GoogleGenAI({apiKey: undefined}) throws, when it throws
ConstructorError ==
  [isError |-> TRUE, message |-> <<"An API Key must be set when running in a browser">>]

\* Mutant of RequestValid: the prompt is not tested
RequestValid_ImageOnly == imageFile # NoFile

\* Whether the handler's validation lets the call through: imageFile && prompt
RequestValid == imageFile # NoFile /\ prompt # ""

\* Mutant of ErrorOnGenerate: the handler leaves the error message as it is
ErrorOnGenerate_Kept == error

\* The error cell after the handler's setError(null)
ErrorOnGenerate == NoError

\* The result slot after the handler's "if (generatedVideoUrl) set...(null)":
\* the test reads the value the memoised handler closed over
ClearedOnGenerate == IF cbVideoUrl # Null THEN Null ELSE generatedVideoUrl

\* The call of handleGenerateVideo, up to its first await (fileToBase64), or
\* to its end when validation fails or the GoogleGenAI constructor throws
\* (it is library code: with no API key it may throw or not).
handleGenerateVideo ==
  IF ~RequestValid
    THEN /\ error' = ValidationMsg
         /\ lastOp' = Op("validationError", 0, NoArg)
         /\ UNCHANGED <<apiKeySelected, isLoading, generatedVideoUrl, flows, nFlows,
                        objectUrls>>
    ELSE LET f == nFlows + 1
         IN /\ nFlows < MaxFlows
            /\ nFlows' = f
            /\ generatedVideoUrl' = ClearedOnGenerate
            /\ objectUrls' = VideoUrlEffect(objectUrls, generatedVideoUrl, ClearedOnGenerate)
            /\ \/ /\ isLoading' = TRUE
                  /\ error' = ErrorOnGenerate
                  /\ flows' = [flows EXCEPT ![f] =
                                 [IdleFlow EXCEPT !.pc = "encoding", !.file = imageFile,
                                                  !.prompt = prompt,
                                                  !.aspectRatio = aspectRatio,
                                                  !.nEncode = 1]]
                  /\ lastOp' = Op("generate", f, NoArg)
                  /\ UNCHANGED apiKeySelected
               \/ /\ ~envApiKey
                  /\ FlowFails(f, ConstructorError)
                  /\ lastOp' = Op("constructorThrows", f, ConstructorError)

HandlerFrame == <<env, imageFile, imagePreview, prompt, aspectRatio, cbVideoUrl, probe,
                  pendingSelects>>

\* Click on "Generate Video": the button is part of the form and is disabled
\* by isGenerateDisabled
GenerateClick ==
  /\ FormRendered
  /\ ~isGenerateDisabled
  /\ handleGenerateVideo
  /\ UNCHANGED HandlerFrame

\* handleGenerateVideo invoked whatever is rendered
GenerateCall ==
  /\ mounted
  /\ handleGenerateVideo
  /\ UNCHANGED HandlerFrame

FlowFrame == <<HandlerFrame, nFlows>>

\* await fileToBase64(imageFile) resolves; ai.models.generateVideos is called
EncodeResolve(f) ==
  /\ flows[f].pc = "encoding"
  /\ flows' = [flows EXCEPT ![f] =
                 [@ EXCEPT !.pc = "submitting",
                           !.request = [prompt |-> flows[f].prompt,
                                        imageBytes |-> fileToBase64(flows[f].file),
                                        mimeType |-> FileType(flows[f].file),
                                        aspectRatio |-> flows[f].aspectRatio],
                           !.file = NoFile, !.prompt = "", !.aspectRatio = "",
                           !.nSubmit = @ + 1]]
  /\ lastOp' = Op("encodeResolve", f, NoArg)
  /\ UNCHANGED <<FlowFrame, apiKeySelected, isLoading, generatedVideoUrl, error, objectUrls>>

\* reader.onerror: fileToBase64 rejects with the error event, not an Error
EncodeReject(f) ==
  /\ flows[f].pc = "encoding"
  /\ LET err == [isError |-> FALSE, message |-> <<>>]
     IN /\ FlowFails(f, err)
        /\ lastOp' = Op("encodeReject", f, err)
  /\ UNCHANGED <<FlowFrame, generatedVideoUrl, objectUrls>>

\* Mutant of OperationReturned: the loop is left, and the asset fetched, on
\* the first handle whether or not it is done
OperationReturned_FetchNotDone(f, op) ==
  /\ flows' = [flows EXCEPT ![f] = [@ EXCEPT !.pc = "fetching", !.request = NoRequest,
                                              !.nFetch = @ + 1]]
  /\ UNCHANGED <<apiKeySelected, isLoading, error>>

\* Mutant of OperationReturned: a done job is fetched whether or not it
\* carries a result reference
OperationReturned_FetchWithoutUri(f, op) ==
  /\ flows' = [flows EXCEPT ![f] =
                 IF op.done
                   THEN [@ EXCEPT !.pc = "fetching", !.request = NoRequest, !.nFetch = @ + 1]
                   ELSE [@ EXCEPT !.pc = "waiting", !.request = NoRequest,
                                  !.timerLeft = PollInterval, !.waited = 0]]
  /\ UNCHANGED <<apiKeySelected, isLoading, error>>

\* An operation handle arrives (from generateVideos or getVideosOperation):
\* the while test, and after the loop the test of videoUri && API_KEY
OperationReturned(f, op) ==
  IF ~op.done
    THEN /\ flows' = [flows EXCEPT ![f] = [@ EXCEPT !.pc = "waiting",
                                                    !.request = NoRequest,
                                                    !.timerLeft = PollInterval,
                                                    !.waited = 0]]
         /\ UNCHANGED <<apiKeySelected, isLoading, error>>
    ELSE IF op.uri /\ envApiKey
      THEN /\ flows' = [flows EXCEPT ![f] = [@ EXCEPT !.pc = "fetching",
                                                      !.request = NoRequest,
                                                      !.nFetch = @ + 1]]
           /\ UNCHANGED <<apiKeySelected, isLoading, error>>
      ELSE FlowFails(f, MissingUriError)

\* await ai.models.generateVideos(...) resolves
SubmitResolve(f) ==
  /\ flows[f].pc = "submitting"
  /\ \E op \in Operations :
       /\ OperationReturned(f, op)
       /\ lastOp' = Op("submitResolve", f, op)
  /\ UNCHANGED <<FlowFrame, generatedVideoUrl, objectUrls>>

SubmitReject(f) ==
  /\ flows[f].pc = "submitting"
  /\ \E err \in Thrown :
       /\ FlowFails(f, err)
       /\ lastOp' = Op("submitReject", f, err)
  /\ UNCHANGED <<FlowFrame, generatedVideoUrl, objectUrls>>

\* Time passes: every running setTimeout(resolve, 10000) gets TickMs closer
Tick ==
  /\ \E f \in FlowIds : flows[f].pc = "waiting" /\ flows[f].timerLeft > 0
  /\ flows' = [f \in FlowIds |->
                 IF flows[f].pc = "waiting" /\ flows[f].timerLeft > 0
                   THEN [flows[f] EXCEPT
                           !.timerLeft = IF @ > TickMs THEN @ - TickMs ELSE 0,
                           !.waited = @ + TickMs]
                   ELSE flows[f]]
  /\ lastOp' = Op("tick", 0, NoArg)
  /\ UNCHANGED <<FlowFrame, apiKeySelected, isLoading, generatedVideoUrl, error, objectUrls>>

\* Mutant of TimerExpired: the timeout never fires
TimerExpired_Never(f) == FALSE

\* Mutant of TimerExpired: the timeout fires without waiting
TimerExpired_Immediately(f) == TRUE

\* Whether flow f's timeout is due
TimerExpired(f) == flows[f].timerLeft = 0

\* The timeout fires; ai.operations.getVideosOperation is called
TimerFire(f) ==
  /\ flows[f].pc = "waiting"
  /\ TimerExpired(f)
  /\ flows' = [flows EXCEPT ![f].pc = "polling"]
  /\ lastOp' = Op("poll", f, NoArg)
  /\ UNCHANGED <<FlowFrame, apiKeySelected, isLoading, generatedVideoUrl, error, objectUrls>>

\* await getVideosOperation(...) resolves; the loop has no iteration cap
PollResolve(f) ==
  /\ flows[f].pc = "polling"
  /\ \E op \in Operations :
       /\ OperationReturned(f, op)
       /\ lastOp' = Op("pollResolve", f, op)
  /\ UNCHANGED <<FlowFrame, generatedVideoUrl, objectUrls>>

PollReject(f) ==
  /\ flows[f].pc = "polling"
  /\ \E err \in Thrown :
       /\ FlowFails(f, err)
       /\ lastOp' = Op("pollReject", f, err)
  /\ UNCHANGED <<FlowFrame, generatedVideoUrl, objectUrls>>

\* await fetch(...) resolves with a response; a non-OK response is thrown
FetchResolve(f) ==
  /\ flows[f].pc = "fetching"
  /\ \/ /\ flows' = [flows EXCEPT ![f].pc = "blob"]
        /\ lastOp' = Op("fetchOk", f, NoArg)
        /\ UNCHANGED <<apiKeySelected, isLoading, error>>
     \/ \E statusText \in StatusTexts :
          /\ FlowFails(f, FetchError(statusText))
          /\ lastOp' = Op("fetchNotOk", f, [statusText |-> statusText])
  /\ UNCHANGED <<FlowFrame, generatedVideoUrl, objectUrls>>

FetchReject(f) ==
  /\ flows[f].pc = "fetching"
  /\ \E err \in Thrown :
       /\ FlowFails(f, err)
       /\ lastOp' = Op("fetchReject", f, err)
  /\ UNCHANGED <<FlowFrame, generatedVideoUrl, objectUrls>>

\* await videoResponse.blob() resolves: createObjectURL, setGeneratedVideoUrl
\* and the finally block
BlobResolve(f) ==
  /\ flows[f].pc = "blob"
  /\ LET created == createObjectURL(objectUrls, "result", BlobOf(f))
     IN /\ generatedVideoUrl' = Set(generatedVideoUrl, Len(created))
        /\ objectUrls' = VideoUrlEffect(created, generatedVideoUrl, generatedVideoUrl')
        /\ lastOp' = Op("blobResolve", f, [blob |-> BlobOf(f)])
  /\ flows' = [flows EXCEPT ![f] = Ended("ready")]
  /\ isLoading' = Set(isLoading, FALSE)
  /\ UNCHANGED <<FlowFrame, apiKeySelected, error>>

BlobReject(f) ==
  /\ flows[f].pc = "blob"
  /\ \E err \in Thrown :
       /\ FlowFails(f, err)
       /\ lastOp' = Op("blobReject", f, err)
  /\ UNCHANGED <<FlowFrame, generatedVideoUrl, objectUrls>>

FlowStep ==
  \E f \in FlowIds :
    \/ EncodeResolve(f) \/ EncodeReject(f)
    \/ SubmitResolve(f) \/ SubmitReject(f)
    \/ TimerFire(f)
    \/ PollResolve(f) \/ PollReject(f)
    \/ FetchResolve(f) \/ FetchReject(f)
    \/ BlobResolve(f) \/ BlobReject(f)

\* ----------------------------------------------------------- specifications
UserAction ==
  \/ SelectKeyClick
  \/ ImageChange
  \/ SetPrompt
  \/ SetAspectRatio
  \/ CreateAnother
  \/ GenerateClick

Next ==
  \/ CheckKey \/ CheckKeyResolve \/ CheckKeyReject
  \/ SelectKeyResolve \/ SelectKeyReject
  \/ UserAction
  \/ Tick
  \/ FlowStep

Spec == Init /\ [][Next]_vars

NextHandlers == Next \/ GenerateCall

SpecHandlers == Init /\ [][NextHandlers]_vars

\* The component is unmounted: React runs the cleanup of every effect, so the
\* generatedVideoUrl effect revokes the URL it holds; nothing else is released.
\* The calls in flight go on, and their state updates are ignored.
Unmount ==
  /\ mounted
  /\ mounted' = FALSE
  /\ objectUrls' = VideoUrlEffect(objectUrls, generatedVideoUrl, Null)
  /\ lastOp' = Op("unmount", 0, NoArg)
  /\ UNCHANGED <<aistudio, envApiKey, apiKeySelected, imageFile, imagePreview, prompt,
                 aspectRatio, isLoading, generatedVideoUrl, error, cbVideoUrl, probe,
                 pendingSelects, flows, nFlows>>

NextUnmount == Next \/ Unmount

SpecUnmount == Init /\ [][NextUnmount]_vars

\* A flow's pending promise settles and its continuation runs
FlowContinues(f) ==
  \/ EncodeResolve(f) \/ EncodeReject(f)
  \/ SubmitResolve(f) \/ SubmitReject(f)
  \/ TimerFire(f)
  \/ PollResolve(f) \/ PollReject(f)
  \/ FetchResolve(f) \/ FetchReject(f)
  \/ BlobResolve(f) \/ BlobReject(f)

SpecLive ==
  /\ Init /\ [][Next]_vars
  /\ WF_vars(Tick)
  /\ \A f \in FlowIds : WF_vars(FlowContinues(f))


\* ------------------------------------------------------------------ claims
InFlight == {f \in FlowIds : flows[f].pc \in InFlightPcs}
EndedPcs == {"ready", "failed"}

\* C1: at most one generation flow is in flight at any time, also when
\* handleGenerateVideo is called while an earlier flow is still running.
\* The handler has no guard of its own: a second call starts a second flow.
C1_AtMostOneFlowInFlight == Cardinality(InFlight) <= 1

\* C2: each slot (preview, result) has at most one object URL that has been
\* created and not yet revoked. The preview URL is never revoked.
C2_AtMostOneLiveUrlPerSlot ==
  /\ Cardinality(Live("preview")) <= 1
  /\ Cardinality(Live("result")) <= 1

\* C3: a call of handleGenerateVideo with no image or an empty prompt sets the
\* validation error at once; it does not set the loading flag, starts no flow,
\* issues no encode, submit, poll or fetch call and touches no object URL.
C3_ValidationFailsWithoutCalls ==
  [][ (lastOp'.op \in {"validationError", "generate", "constructorThrows"}
         /\ (imageFile = NoFile \/ prompt = ""))
      => /\ lastOp'.op = "validationError"
         /\ error' = ValidationMsg
         /\ isLoading' = isLoading
         /\ flows' = flows /\ nFlows' = nFlows
         /\ objectUrls' = objectUrls /\ generatedVideoUrl' = generatedVideoUrl ]_vars

C3_Witness ==
  /\ lastOp.op = "validationError"
  /\ imageFile # NoFile /\ prompt = ""
  /\ error = ValidationMsg
  /\ ~isLoading

\* C4: a flow whose fetch succeeded reaches Ready once (from the blob await,
\* after any number of polls, and it then stays as it is); at that step the
\* result slot holds a fresh URL made from the binary fetched for that flow,
\* no other result URL is left unrevoked, the loading flag is off and the
\* preview slot and its URLs are untouched.
C4_ReadyRegistersFetchedAsset ==
  [][ \A f \in FlowIds :
        /\ (flows[f].pc # "ready" /\ flows'[f].pc = "ready")
             => /\ flows[f].pc = "blob"
                /\ generatedVideoUrl' = Len(objectUrls) + 1
                /\ Len(objectUrls') = Len(objectUrls) + 1
                /\ objectUrls'[generatedVideoUrl'] =
                     [slot |-> "result", src |-> BlobOf(f), revoked |-> FALSE]
                /\ LiveIn(objectUrls', "result") = {generatedVideoUrl'}
                /\ ~isLoading'
                /\ imagePreview' = imagePreview
                /\ LiveIn(objectUrls', "preview") = LiveIn(objectUrls, "preview")
        /\ flows[f].pc = "ready" => flows'[f] = flows[f] ]_vars

\* Flow 2 has just become Ready, and the URL of flow 1's result has been
\* revoked
C4_Witness ==
  /\ lastOp.op = "blobResolve" /\ lastOp.flow = 2
  /\ flows[1].pc = "ready" /\ flows[2].pc = "ready"
  /\ generatedVideoUrl # Null /\ objectUrls[generatedVideoUrl].src = BlobOf(2)
  /\ \E u \in 1..Len(objectUrls) : objectUrls[u].src = BlobOf(1) /\ objectUrls[u].revoked
  /\ imagePreview # Null

\* The steps in which a flow's try block ends with a throw, and what is thrown
ThrowOps == {"constructorThrows", "encodeReject", "submitReject", "pollReject",
             "fetchReject", "blobReject"}

\* C5: an error raised at any stage of a flow (thrown by a call, or by the
\* handler for a non-success fetch response) whose message contains the
\* entity-not-found signal ends the flow failed with the invalid-credential
\* message and sets the credential flag to false; every other thrown value
\* (an Error without the signal, or a value that is no Error and so has no
\* message) ends the flow failed with the generic message and leaves the
\* credential flag as it was.
C5_AuthSignalClassification ==
  [][ lastOp'.op \in ThrowOps \cup {"fetchNotOk"} =>
        LET err == IF lastOp'.op = "fetchNotOk"
                     THEN [isError |-> TRUE, message |-> FetchPrefix \o lastOp'.arg.statusText]
                     ELSE lastOp'.arg
            f == lastOp'.flow
        IN /\ flows'[f].pc = "failed"
           /\ ~isLoading'
           /\ IF err.isError /\ Includes(err.message, Signal)
                THEN error' = InvalidKeyMsg /\ apiKeySelected' = "false"
                ELSE /\ error' = FailPrefix \o (IF err.isError THEN err.message ELSE UnknownMsg)
                     /\ apiKeySelected' = apiKeySelected ]_vars

\* A poll was rejected with a signal-bearing Error while the flag was true
C5_Witness ==
  /\ lastOp.op = "pollReject"
  /\ Includes(lastOp.arg.message, Signal)
  /\ apiKeySelected = "false" /\ error = InvalidKeyMsg
  /\ flows[lastOp.flow].pc = "failed"

\* C6: when submit or a poll returns a done job with no result reference, the
\* flow ends failed with the missing-result message: it has issued no fetch,
\* no URL is created, the result slot is not written, and a failed flow
\* takes no further step (no further poll).
C6_MissingResultFails ==
  [][ /\ (lastOp'.op \in {"submitResolve", "pollResolve"}
            /\ lastOp'.arg.done /\ ~lastOp'.arg.uri)
        => LET f == lastOp'.flow
           IN /\ flows'[f].pc = "failed"
              /\ error' = FailPrefix \o MissingUriMsg
              /\ ~isLoading'
              /\ flows[f].nFetch = 0
              /\ objectUrls' = objectUrls
              /\ generatedVideoUrl' = generatedVideoUrl
              /\ apiKeySelected' = apiKeySelected
      /\ \A f \in FlowIds : flows[f].pc = "failed" => flows'[f] = flows[f] ]_vars

C6_Witness ==
  /\ lastOp.op = "pollResolve" /\ lastOp.arg.done /\ ~lastOp.arg.uri
  /\ flows[lastOp.flow].pc = "failed"
  /\ error = FailPrefix \o MissingUriMsg
  /\ ~isLoading /\ generatedVideoUrl = Null

\* C7 as claimed: a non-success fetch response ends the flow failed with a
\* message that contains the response's status text, creates no URL and
\* leaves the result slot empty.
C7_FetchFailureCarriesStatusText ==
  [][ lastOp'.op = "fetchNotOk" =>
        /\ flows'[lastOp'.flow].pc = "failed"
        /\ ~isLoading'
        /\ Includes(error', lastOp'.arg.statusText)
        /\ objectUrls' = objectUrls
        /\ generatedVideoUrl' = Null ]_vars

\* C7 as amended: the message contains the status text unless the status
\* text itself contains the entity-not-found signal; then the catch block
\* classifies the failure as an invalid credential (that message, flag
\* false). Either way no URL is created and the result slot stays empty.
C7_FetchFailureAmended ==
  [][ lastOp'.op = "fetchNotOk" =>
        /\ flows'[lastOp'.flow].pc = "failed"
        /\ ~isLoading'
        /\ IF Includes(lastOp'.arg.statusText, Signal)
             THEN error' = InvalidKeyMsg /\ apiKeySelected' = "false"
             ELSE Includes(error', lastOp'.arg.statusText) /\ apiKeySelected' = apiKeySelected
        /\ objectUrls' = objectUrls
        /\ generatedVideoUrl' = Null ]_vars

C7_Witness ==
  /\ lastOp.op = "fetchNotOk" /\ lastOp.arg.statusText = <<"Forbidden">>
  /\ flows[lastOp.flow].pc = "failed"
  /\ error = FailPrefix \o FetchPrefix \o <<"Forbidden">>
  /\ ~isLoading /\ generatedVideoUrl = Null

\* C8: while a flow's job is not done and nothing fails (the flow is waiting
\* or polling), the loading flag is on, there is no result and no error and
\* the flow has issued no fetch; a not-done answer sends the flow back to
\* wait; and a poll is issued only by a flow whose timer has run for the
\* whole interval since the last answer.
C8_PollingStaysLoading ==
  /\ [](\A f \in FlowIds :
          flows[f].pc \in {"waiting", "polling"}
            => /\ isLoading
               /\ generatedVideoUrl = Null
               /\ error = NoError
               /\ flows[f].nFetch = 0)
  /\ [][ /\ \A f \in FlowIds :
              (flows[f].pc # "polling" /\ flows'[f].pc = "polling")
                => flows[f].pc = "waiting" /\ flows[f].waited >= PollInterval
         /\ (lastOp'.op \in {"submitResolve", "pollResolve"} /\ ~lastOp'.arg.done)
              => /\ flows'[lastOp'.flow].pc = "waiting"
                 /\ flows'[lastOp'.flow].waited = 0 ]_vars

\* A poll has been answered not done, and the flow waits again
C8_Witness ==
  /\ lastOp.op = "pollResolve" /\ ~lastOp.arg.done
  /\ flows[lastOp.flow].pc = "waiting"
  /\ isLoading /\ error = NoError /\ generatedVideoUrl = Null

\* C9: whatever is thrown inside a started flow ends that flow failed; and
\* in the step in which a flow ends, the loading flag is turned off and the
\* result slot holds a URL (Ready) or the error message is set (Failed).
C9_FailuresAreCaught ==
  [][ /\ lastOp'.op \in ThrowOps \cup {"fetchNotOk"}
           => flows'[lastOp'.flow].pc = "failed"
      /\ \A f \in FlowIds :
           (flows[f].pc \notin EndedPcs /\ flows'[f].pc \in EndedPcs)
             => /\ ~isLoading'
                /\ flows'[f].pc = "ready" => generatedVideoUrl' # Null
                /\ flows'[f].pc = "failed" => error' # NoError ]_vars

\* The encoder's read failed
C9_Witness ==
  /\ lastOp.op = "encodeReject"
  /\ flows[lastOp.flow].pc = "failed"
  /\ ~isLoading
  /\ error = FailPrefix \o UnknownMsg

\* C10: Failed is never a hard stop. If a sequence of user actions leads from
\* a failed state back to generate, then in a failed state with nothing
\* pending some control on screen does something. After an auth failure
\* without window.aistudio.openSelectKey none does.
C10_FailedIsNeverAHardStop ==
  ( /\ \E f \in FlowIds : flows[f].pc = "failed"
    /\ error # NoError
    /\ InFlight = {}
    /\ pendingSelects = 0 )
  => ENABLED UserAction

\* C11: after the component is unmounted, no object URL it created remains
\* unrevoked. The preview URL is never revoked, and a flow whose blob arrives
\* after the unmount creates a result URL that nothing revokes.
C11_NoUrlSurvivesTeardown ==
  ~mounted => (Live("preview") = {} /\ Live("result") = {})

\* C12: the startup probe takes the credential flag from unknown to a definite
\* value. Without window.aistudio.hasSelectedApiKey the flag becomes true in
\* the mount effect itself; with it the flag stays unknown only while the call
\* is pending and then becomes the call's answer, or true when the call
\* rejects. A finished probe never leaves the flag unknown, an unknown flag
\* always has a probe step ahead of it, and the flag never returns to unknown.
C12_ProbeResolvesFlag ==
  /\ [](probe = "done" => apiKeySelected # "null")
  /\ [](apiKeySelected = "null" => ENABLED (CheckKey \/ CheckKeyResolve \/ CheckKeyReject))
  /\ [][ /\ lastOp'.op = "checkKey"
              => apiKeySelected' = (IF aistudio.hasSelectedApiKey THEN "null" ELSE "true")
         /\ lastOp'.op = "checkKeyResolve"
              => apiKeySelected' = (IF lastOp'.arg.hasKey THEN "true" ELSE "false")
         /\ lastOp'.op = "checkKeyReject" => apiKeySelected' = "true"
         /\ apiKeySelected # "null" => apiKeySelected' # "null" ]_vars

\* The probe has answered that no credential is selected
C12_Witness ==
  /\ lastOp.op = "checkKeyResolve" /\ ~lastOp.arg.hasKey
  /\ probe = "done"
  /\ apiKeySelected = "false"

\* C13: in every state the program reaches through its rendered controls,
\* loading, ready (the result slot holds a URL) and failed (the error message
\* is set) are never true two at a time.
C13_StatesAreExclusive ==
  /\ ~(isLoading /\ generatedVideoUrl # Null)
  /\ ~(isLoading /\ error # NoError)
  /\ ~(generatedVideoUrl # Null /\ error # NoError)

\* A second generation has been started after the first one failed: loading,
\* and the first flow's error message is gone
C13_Witness ==
  /\ lastOp.op = "generate" /\ lastOp.flow = 2
  /\ flows[1].pc = "failed"
  /\ isLoading /\ error = NoError /\ generatedVideoUrl = Null

\* C14: whenever submit or a poll returns a done job that carries a result
\* reference, the flow goes on to fetch the asset and does not end in the
\* missing-result failure. The code also requires process.env.API_KEY: with
\* no key in the bundle the flow ends with the missing-result message.
C14_DoneWithUriFetches ==
  [][ (lastOp'.op \in {"submitResolve", "pollResolve"}
         /\ lastOp'.arg.done /\ lastOp'.arg.uri)
      => /\ flows'[lastOp'.flow].pc = "fetching"
         /\ flows'[lastOp'.flow].nFetch = 1
         /\ error' # FailPrefix \o MissingUriMsg ]_vars

\* C15: whenever a generation is started while the result slot holds the URL
\* of an earlier flow, that call clears the slot and the URL is revoked,
\* whatever updates came before the call. The memoised handler tests the
\* generatedVideoUrl of the render in which imageFile, prompt or aspectRatio
\* last changed, not the current one.
C15_GenerateReleasesHeldResult ==
  [][ (lastOp'.op \in {"generate", "constructorThrows"} /\ generatedVideoUrl # Null)
      => /\ generatedVideoUrl' = Null
         /\ objectUrls'[generatedVideoUrl].revoked ]_vars

\* C16: a step of a flow that has been superseded (a later call of
\* handleGenerateVideo has started a newer flow) changes neither the result
\* slot nor the error message nor the loading flag. The continuations carry
\* no flow identity: an old flow's result, error and finally block write the
\* same cells as the new flow's.
C16_StaleResponsesIgnored ==
  [][ \A f \in FlowIds :
        (lastOp'.flow = f /\ flows'[f] # flows[f] /\ f < nFlows)
          => /\ generatedVideoUrl' = generatedVideoUrl
             /\ error' = error
             /\ isLoading' = isLoading ]_vars

\* C17: under the event loop's fairness (a settled promise's continuation
\* runs, a due timer fires) every started flow leaves the loading state, with
\* the flow Ready or Failed at that moment, unless its polls are answered
\* not-done for ever; there is no iteration cap, so such a flow stays in the
\* poll loop, and loading stays on, for ever.
C17_FlowsLeaveLoading ==
  \A f \in FlowIds :
    \/ (flows[f].pc \in InFlightPcs) ~> (flows[f].pc \in EndedPcs /\ ~isLoading)
    \/ /\ []<>(lastOp.op = "pollResolve" /\ lastOp.flow = f /\ ~lastOp.arg.done)
       /\ <>[](isLoading /\ flows[f].pc \in {"waiting", "polling"})

\* A flow has left the poll loop with a done job and has ended Ready
C17_Witness ==
  /\ lastOp.op = "blobResolve"
  /\ flows[lastOp.flow].pc = "ready"
  /\ ~isLoading /\ generatedVideoUrl # Null /\ error = NoError

\* C18: once the startup probe has set the credential flag, a step changes it
\* only if it is the completion of the user's select-credential action (the
\* flag becomes true) or a flow's failure classified as invalid credential
\* (the flag becomes false); the select-credential completion always leaves
\* it true. Every other step (image change, prompt and aspect-ratio edits,
\* validation failure, other failures, successful flows, Create Another)
\* leaves it as it is.
C18_FlagChangesOnlyBySelectOrAuthFailure ==
  [][ /\ (apiKeySelected # "null" /\ apiKeySelected' # apiKeySelected)
           => \/ lastOp'.op = "selectKeyResolve" /\ apiKeySelected' = "true"
              \/ /\ lastOp'.op \in ThrowOps \cup {"fetchNotOk"}
                 /\ error' = InvalidKeyMsg
                 /\ apiKeySelected' = "false"
      /\ lastOp'.op = "selectKeyResolve" => apiKeySelected' = "true" ]_vars

\* After a flow's auth failure the user has selected a credential again
C18_Witness ==
  /\ lastOp.op = "selectKeyResolve"
  /\ apiKeySelected = "true"
  /\ error = InvalidKeyMsg
  /\ \E f \in FlowIds : flows[f].pc = "failed"

\* C19: within one flow the calls follow the protocol order. A flow encodes
\* once, submits once and only when its encoding resolves, waits and polls
\* only after a handle that is not done (a done handle from submit means no
\* poll at all), fetches at most once and only on a done handle, and issues
\* no call once it is Ready or Failed.
C19_CallsFollowProtocol ==
  /\ [](\A f \in FlowIds :
          /\ flows[f].pc = "encoding"
               => flows[f].nEncode = 1 /\ flows[f].nSubmit = 0 /\ flows[f].nFetch = 0
          /\ flows[f].pc \in {"submitting", "waiting", "polling"}
               => flows[f].nEncode = 1 /\ flows[f].nSubmit = 1 /\ flows[f].nFetch = 0
          /\ flows[f].pc \in {"fetching", "blob"}
               => flows[f].nEncode = 1 /\ flows[f].nSubmit = 1 /\ flows[f].nFetch = 1)
  /\ [][ \A f \in FlowIds :
           /\ flows'[f].nSubmit > flows[f].nSubmit
                => /\ flows[f].pc = "encoding"
                   /\ lastOp'.op = "encodeResolve" /\ lastOp'.flow = f
           /\ (flows[f].pc # "waiting" /\ flows'[f].pc = "waiting")
                => /\ lastOp'.op \in {"submitResolve", "pollResolve"}
                   /\ lastOp'.flow = f /\ ~lastOp'.arg.done
           /\ (flows[f].pc # "polling" /\ flows'[f].pc = "polling")
                => flows[f].pc = "waiting"
           /\ flows'[f].nFetch > flows[f].nFetch
                => /\ lastOp'.op \in {"submitResolve", "pollResolve"}
                   /\ lastOp'.flow = f /\ lastOp'.arg.done
           /\ (lastOp'.op = "submitResolve" /\ lastOp'.flow = f /\ lastOp'.arg.done)
                => flows'[f].pc \in {"fetching", "failed"}
           /\ flows[f].pc \in EndedPcs => flows'[f] = flows[f] ]_vars

\* A poll has returned a done job with a result reference and the flow has
\* issued its one fetch
C19_Witness ==
  /\ lastOp.op = "pollResolve" /\ lastOp.arg.done /\ lastOp.arg.uri
  /\ flows[lastOp.flow].pc = "fetching"
  /\ flows[lastOp.flow].nSubmit = 1 /\ flows[lastOp.flow].nFetch = 1

====
